---- MODULE Spec2Model ----
(***************************************************************************)
(* Model of framebuffer.go: an image/draw compatible surface over the      *)
(* Linux framebuffer device.                                               *)
(*                                                                         *)
(* State: the *FrameBuffer returned by Open (buf, w, h), the os.File that  *)
(* wraps the device descriptor (open flag and write cursor), the device    *)
(* memory behind that descriptor, what initfb reported, and the outcome    *)
(* of the last call.                                                       *)
(*                                                                         *)
(* Reading of lines 66-76.  Set computes pixelStart from (x, y) and hands  *)
(* the three narrowed channels to WritePixel; WritePixel stores them at    *)
(* pixelStart+red, pixelStart+green, pixelStart+blue.  pixelStart is the   *)
(* value of getPixelStart(x, y) (line 67, as in At, line 57), the only     *)
(* definition of that name in the file, for both methods.                  *)
(*                                                                         *)
(* The device is a fixed-size memory of smem_len bytes (fbdev): a write    *)
(* that would run past its end stores the bytes that fit and reports an    *)
(* error.  Every system call may also fail on its own (environment).       *)
(* A Go index-out-of-range panic is recorded in ret.panic; the panicking   *)
(* statement has no effect.                                                *)
(***************************************************************************)
EXTENDS Integers, Sequences, FiniteSets, TLC

VARIABLES fb, file, dev, info, ret, ncalls

vars == <<fb, file, dev, info, ret, ncalls>>

----------------------------------------------------------------------------
(* Bounds of the model *)

\* xres and yres reported by initfb range over 1..MaxRes
MaxRes == 2
\* smem_len reported by initfb ranges over colorBytes * (1..MaxPixels)
MaxPixels == 3
\* number of Set, WritePixel and Flush calls explored on one surface
MaxCalls == 3

----------------------------------------------------------------------------
(* Program constants, lines 24-31 *)

red == 2
green == 1
blue == 0
colorBytes == 4

\* color.RGBA values handed to Set
Colors == {[R |-> 10, G |-> 20, B |-> 30, A |-> 0],
           [R |-> 255, G |-> 0, B |-> 128, A |-> 255]}
\* (r, g, b) bytes handed to WritePixel
Bytes == {[R |-> 255, G |-> 0, B |-> 128]}
\* what every byte of the device memory holds before the program starts
DevFill == {9}
\* memory sizes the device may have
MemSizes == {colorBytes * k : k \in 1..MaxPixels}

Zeros(n) == [i \in 1..n |-> 0]

NilFB == [nil |-> TRUE, buf |-> <<>>, w |-> 0, h |-> 0]
NoFile == [valid |-> FALSE, open |-> FALSE, pos |-> 0]
NoRet == [op |-> "none", x |-> 0, y |-> 0, c |-> [R |-> 0, G |-> 0, B |-> 0, A |-> 0],
          val |-> [R |-> 0, G |-> 0, B |-> 0, A |-> 0], err |-> "nil", panic |-> FALSE,
          off |-> 0, n |-> 0, seekOk |-> TRUE, writeOk |-> TRUE,
          rect |-> <<0, 0, 0, 0>>]
NoInfo == [status |-> 0, smem_len |-> 0, xres |-> 0, yres |-> 0]

----------------------------------------------------------------------------
(* Pure functions *)

\* uint8 as a saturating conversion
uint8Saturating(v) == IF v > 255 THEN 255 ELSE v

\* Go's uint8(v) conversion of an unsigned value: the low 8 bits
uint8(v) == v % 256

\* color.RGBA.RGBA(): each 8-bit channel widened to 16 bits, r |= r << 8
RGBA(c) == [r |-> c.R + c.R * 256, g |-> c.G + c.G * 256,
            b |-> c.B + c.B * 256, a |-> c.A + c.A * 256]

\* getPixelStart with the row stride taken from the height
getPixelStartByHeight(f, x, y) == (y * f.h + x) * colorBytes

getPixelStart(f, x, y) == (y * f.w + x) * colorBytes

\* buf[i] in Go is buf[i + 1] here; an index outside 0..len-1 panics
InRange(buf, i) == i >= 0 /\ i < Len(buf)

Bounds(f) == <<0, 0, f.w, f.h>>

InBounds(f, x, y) == x >= 0 /\ x < f.w /\ y >= 0 /\ y < f.h

\* lines 56-64: the three reads of the composite literal, in order R, G, B
At(f, x, y) ==
  LET pixelStart == getPixelStart(f, x, y)
      ok == /\ InRange(f.buf, pixelStart + red)
            /\ InRange(f.buf, pixelStart + green)
            /\ InRange(f.buf, pixelStart + blue)
  IN  IF ok
        THEN [panic |-> FALSE,
              val |-> [R |-> f.buf[pixelStart + red + 1],
                       G |-> f.buf[pixelStart + green + 1],
                       B |-> f.buf[pixelStart + blue + 1],
                       A |-> 0]]
        ELSE [panic |-> TRUE, val |-> NoRet.val]

\* one indexed store buf[i] = v; st is [buf, panic]; nothing runs after a panic
Store(st, i, v) ==
  IF st.panic THEN st
  ELSE IF InRange(st.buf, i)
         THEN [buf |-> [st.buf EXCEPT ![i + 1] = v], panic |-> FALSE]
         ELSE [buf |-> st.buf, panic |-> TRUE]

\* lines 72-76: the stores to pixelStart+red, +green, +blue, in that order
WritePixel(f, x, y, r, g, b) ==
  LET pixelStart == getPixelStart(f, x, y)
      s0 == [buf |-> f.buf, panic |-> FALSE]
      s1 == Store(s0, pixelStart + red, r)
      s2 == Store(s1, pixelStart + green, g)
      s3 == Store(s2, pixelStart + blue, b)
  IN  [fb |-> [f EXCEPT !.buf = s3.buf], panic |-> s3.panic]

\* lines 66-70: c.RGBA(), each channel narrowed by uint8, then WritePixel
Set(f, x, y, c) ==
  LET rgba == RGBA(c)
  IN  WritePixel(f, x, y, uint8(rgba.r), uint8(rgba.g), uint8(rgba.b))

Min(a, b) == IF a < b THEN a ELSE b

\* os.File.Seek(0, 0): fails on a closed file or when the environment says so;
\* the cursor moves only on success
Seek(fl, seekOk) ==
  IF fl.open /\ seekOk THEN [file |-> [fl EXCEPT !.pos = 0], ok |-> TRUE]
                       ELSE [file |-> fl, ok |-> FALSE]

\* os.File.Write(b) on a device memory d: stores b at the cursor until all of
\* b is written, the device ends, or the environment fails it after wn bytes;
\* err is non-nil exactly when fewer than len(b) bytes were written
Write(fl, d, b, wn) ==
  LET room == IF fl.pos < Len(d) THEN Len(d) - fl.pos ELSE 0
      n == IF fl.open THEN Min(Min(wn, Len(b)), room) ELSE 0
  IN  [file |-> [fl EXCEPT !.pos = fl.pos + n],
       dev |-> [i \in 1..Len(d) |->
                  IF i > fl.pos /\ i <= fl.pos + n THEN b[i - fl.pos] ELSE d[i]],
       off |-> fl.pos,
       n |-> n,
       err |-> IF n = Len(b) THEN "nil" ELSE "io"]

\* Flush that drops Write's error as it drops Seek's
FlushDropsWriteError(f, fl, d, seekOk, wn) ==
  LET s == Seek(fl, seekOk)
      wr == Write(s.file, d, f.buf, wn)
  IN  [file |-> wr.file, dev |-> wr.dev, err |-> "nil",
       off |-> wr.off, n |-> wr.n, seekOk |-> s.ok, writeOk |-> wr.err = "nil"]

\* lines 80-84: Seek's results are dropped, Write's error is returned
Flush(f, fl, d, seekOk, wn) ==
  LET s == Seek(fl, seekOk)
      wr == Write(s.file, d, f.buf, wn)
  IN  [file |-> wr.file, dev |-> wr.dev, err |-> wr.err,
       off |-> wr.off, n |-> wr.n, seekOk |-> s.ok, writeOk |-> wr.err = "nil"]

\* lines 87-89: the descriptor is released; the error is close(2)'s, or
\* ErrClosed on a file already closed
Close(fl, closeOk) ==
  [file |-> [fl EXCEPT !.open = FALSE],
   err |-> IF fl.open /\ closeOk THEN "nil" ELSE "io"]

\* Open that builds the FrameBuffer before looking at cErr and keeps it
OpenKeepsOnError(cErr, smem_len, xres, yres) ==
  [fb |-> [nil |-> FALSE, buf |-> Zeros(smem_len), w |-> xres, h |-> yres],
   file |-> [valid |-> TRUE, open |-> TRUE, pos |-> 0],
   err |-> IF cErr # 0 THEN "InitErr" ELSE "nil"]

\* Open with w and h filled from the wrong resolution fields
OpenSwapsWH(cErr, smem_len, xres, yres) ==
  IF cErr # 0
    THEN [fb |-> NilFB, file |-> NoFile, err |-> "InitErr"]
    ELSE [fb |-> [nil |-> FALSE, buf |-> Zeros(smem_len), w |-> yres, h |-> xres],
          file |-> [valid |-> TRUE, open |-> TRUE, pos |-> 0],
          err |-> "nil"]

\* Open that sizes the buffer from the resolution instead of smem_len
OpenAllocatesByResolution(cErr, smem_len, xres, yres) ==
  IF cErr # 0
    THEN [fb |-> NilFB, file |-> NoFile, err |-> "InitErr"]
    ELSE [fb |-> [nil |-> FALSE, buf |-> Zeros(xres * yres * colorBytes),
                  w |-> xres, h |-> yres],
          file |-> [valid |-> TRUE, open |-> TRUE, pos |-> 0],
          err |-> "nil"]

\* lines 92-113: cErr, smem_len, xres, yres are what initfb put in info
Open(cErr, smem_len, xres, yres) ==
  IF cErr # 0
    THEN [fb |-> NilFB, file |-> NoFile, err |-> "InitErr"]
    ELSE [fb |-> [nil |-> FALSE, buf |-> Zeros(smem_len), w |-> xres, h |-> yres],
          file |-> [valid |-> TRUE, open |-> TRUE, pos |-> 0],
          err |-> "nil"]

----------------------------------------------------------------------------
(* State machine: one action per call of the public API *)

Init ==
  /\ fb = NilFB
  /\ file = NoFile
  /\ \E size \in MemSizes, v \in DevFill : dev = [i \in 1..size |-> v]
  /\ info = NoInfo
  /\ ret = NoRet
  /\ ncalls = 0

\* Open(filename): initfb reports a status, the device's memory size and a
\* resolution; xres and yres are independent of smem_len
CallOpen ==
  /\ fb.nil
  /\ \E cErr \in {0, -1}, xres \in 1..MaxRes, yres \in 1..MaxRes :
       LET o == Open(cErr, Len(dev), xres, yres)
       IN  /\ fb' = o.fb
           /\ file' = o.file
           /\ info' = [status |-> cErr, smem_len |-> Len(dev),
                       xres |-> xres, yres |-> yres]
           /\ ret' = [NoRet EXCEPT !.op = "Open", !.err = o.err]
  /\ UNCHANGED <<dev, ncalls>>

CallBounds ==
  /\ ~fb.nil
  /\ ret' = [NoRet EXCEPT !.op = "Bounds", !.rect = Bounds(fb)]
  /\ UNCHANGED <<fb, file, dev, info, ncalls>>

CallAt(x, y) ==
  /\ ~fb.nil
  /\ InBounds(fb, x, y)
  /\ LET a == At(fb, x, y)
     IN  ret' = [NoRet EXCEPT !.op = "At", !.x = x, !.y = y,
                              !.val = a.val, !.panic = a.panic]
  /\ UNCHANGED <<fb, file, dev, info, ncalls>>

\* Set on a buffer that is the device mapping itself: the store shows at once
CallSetWritesThrough(x, y, c) ==
  /\ ~fb.nil
  /\ InBounds(fb, x, y)
  /\ ncalls < MaxCalls
  /\ LET s == Set(fb, x, y, c)
     IN  /\ fb' = s.fb
         /\ dev' = [i \in 1..Len(dev) |->
                     IF i <= Len(s.fb.buf) THEN s.fb.buf[i] ELSE dev[i]]
         /\ ret' = [NoRet EXCEPT !.op = "Set", !.x = x, !.y = y, !.c = c,
                                 !.panic = s.panic]
  /\ ncalls' = ncalls + 1
  /\ UNCHANGED <<file, info>>

CallSet(x, y, c) ==
  /\ ~fb.nil
  /\ InBounds(fb, x, y)
  /\ ncalls < MaxCalls
  /\ LET s == Set(fb, x, y, c)
     IN  /\ fb' = s.fb
         /\ ret' = [NoRet EXCEPT !.op = "Set", !.x = x, !.y = y, !.c = c,
                                 !.panic = s.panic]
  /\ ncalls' = ncalls + 1
  /\ UNCHANGED <<file, dev, info>>

CallWritePixel(x, y, r, g, b) ==
  /\ ~fb.nil
  /\ InBounds(fb, x, y)
  /\ ncalls < MaxCalls
  /\ LET s == WritePixel(fb, x, y, r, g, b)
     IN  /\ fb' = s.fb
         /\ ret' = [NoRet EXCEPT !.op = "WritePixel", !.x = x, !.y = y,
                                 !.c = [R |-> r, G |-> g, B |-> b, A |-> 0],
                                 !.panic = s.panic]
  /\ ncalls' = ncalls + 1
  /\ UNCHANGED <<file, dev, info>>

\* the environment decides whether Seek succeeds and after how many bytes
\* (if at all) Write fails
CallFlush ==
  /\ ~fb.nil
  /\ ncalls < MaxCalls
  /\ ncalls' = ncalls + 1
  /\ \E seekOk \in BOOLEAN, wn \in {0, colorBytes, Len(fb.buf)} :
       LET fl == Flush(fb, file, dev, seekOk, wn)
       IN  /\ file' = fl.file
           /\ dev' = fl.dev
           /\ ret' = [NoRet EXCEPT !.op = "Flush", !.err = fl.err, !.off = fl.off,
                                   !.n = fl.n, !.seekOk = fl.seekOk,
                                   !.writeOk = fl.writeOk]
  /\ UNCHANGED <<fb, info>>

CallClose ==
  /\ ~fb.nil
  /\ \E closeOk \in BOOLEAN :
       LET cl == Close(file, closeOk)
       IN  /\ file' = cl.file
           /\ ret' = [NoRet EXCEPT !.op = "Close", !.err = cl.err]
  /\ UNCHANGED <<fb, dev, info, ncalls>>

Next ==
  \/ CallOpen
  \/ CallBounds
  \/ \E x \in 0..(MaxRes - 1), y \in 0..(MaxRes - 1) : CallAt(x, y)
  \/ \E x \in 0..(MaxRes - 1), y \in 0..(MaxRes - 1), c \in Colors : CallSet(x, y, c)
  \/ \E x \in 0..(MaxRes - 1), y \in 0..(MaxRes - 1), c \in Bytes :
        CallWritePixel(x, y, c.R, c.G, c.B)
  \/ CallFlush
  \/ CallClose

Spec == Init /\ [][Next]_vars

TypeOK ==
  /\ ncalls \in 0..MaxCalls
  /\ Len(dev) \in MemSizes
  /\ fb.nil \/ Len(fb.buf) = Len(dev)

----------------------------------------------------------------------------
(* Properties *)

PixelWrite == {"Set", "WritePixel"}

\* the in-bounds coordinates of the open surface
Coords == {p \in (0..(MaxRes - 1)) \X (0..(MaxRes - 1)) : InBounds(fb, p[1], p[2])}

\* the offset the specification gives for (x, y), written out
Off(x, y) == (y * fb.w + x) * 4

\* C1: after Set(x, y, c) on an in-bounds (x, y) of an open surface, Set has
\* returned and At(x, y) returns (c.R, c.G, c.B, alpha 0).
C1_RoundTrip ==
  (ret.op = "Set" /\ InBounds(fb, ret.x, ret.y)) =>
    /\ ~ret.panic
    /\ At(fb, ret.x, ret.y) =
         [panic |-> FALSE,
          val |-> [R |-> ret.c.R, G |-> ret.c.G, B |-> ret.c.B, A |-> 0]]

\* The round trip on the pixels whose bytes the buffer holds: Set(x, y, c)
\* followed by At(x, y) gives (c.R, c.G, c.B, 0) whenever the Set returned.
RoundTripWhenStored ==
  (ret.op = "Set" /\ ~ret.panic) =>
    At(fb, ret.x, ret.y) =
      [panic |-> FALSE,
       val |-> [R |-> ret.c.R, G |-> ret.c.G, B |-> ret.c.B, A |-> 0]]

\* C2: a pixel write at an in-bounds (x, y) changes at most the bytes at
\* off+0 (blue), off+1 (green), off+2 (red) with off = (y*width + x)*4; the
\* byte at off+3 and every byte of every other coordinate keep their values,
\* the buffer keeps its length, and a write that returns leaves b, g, r there.
C2_WriteFrame ==
  [][ (ret'.op \in PixelWrite /\ ncalls' = ncalls + 1) =>
        LET off == Off(ret'.x, ret'.y)
        IN  /\ Len(fb'.buf) = Len(fb.buf)
            /\ fb'.w = fb.w /\ fb'.h = fb.h
            /\ \A i \in 0..(Len(fb.buf) - 1) :
                 i \notin {off, off + 1, off + 2} => fb'.buf[i + 1] = fb.buf[i + 1]
            /\ ~ret'.panic =>
                 /\ off + 2 < Len(fb.buf)
                 /\ fb'.buf[off + 1] = ret'.c.B
                 /\ fb'.buf[off + 2] = ret'.c.G
                 /\ fb'.buf[off + 3] = ret'.c.R
            /\ ret'.panic => fb' = fb ]_vars

\* a second write has returned while another coordinate holds an earlier one
C2_Witness ==
  /\ ret.op \in PixelWrite
  /\ ~ret.panic
  /\ fb.buf[Off(ret.x, ret.y) + 3] = ret.c.R
  /\ \E p \in Coords :
       /\ p # <<ret.x, ret.y>>
       /\ Off(p[1], p[2]) + 2 < Len(fb.buf)
       /\ fb.buf[Off(p[1], p[2]) + 3] # 0

C4_FlushFailureReported ==
  (ret.op = "Flush" /\ (~ret.seekOk \/ ~ret.writeOk)) => ret.err # "nil"

\* C5: the device memory changes only in a Flush call; the buffer changes only
\* in Open, Set and WritePixel; and no byte of the device's previous contents
\* ever appears in the buffer.
C5_DeviceOnlyByFlush ==
  /\ [][ /\ dev' # dev => (ret'.op = "Flush" /\ ncalls' = ncalls + 1)
         /\ fb' # fb => ret'.op \in (PixelWrite \cup {"Open"})
         /\ ret'.op \in PixelWrite => dev' = dev ]_vars
  /\ [](\A i \in 1..Len(fb.buf) : fb.buf[i] \notin DevFill)

\* a pixel write has returned after a Flush; the device still shows the
\* flushed image, not the new pixel
C5_Witness ==
  /\ ret.op \in PixelWrite
  /\ ~ret.panic
  /\ \E i \in 1..Len(dev) : dev[i] \notin DevFill
  /\ dev # fb.buf

\* C6: when initfb returns a non-zero status, Open returns InitErr and a nil
\* surface: no buffer and no os.File exist in the process.
C6_OpenFailure ==
  /\ (ret.op = "Open" /\ info.status # 0) =>
       /\ ret.err = "InitErr"
       /\ fb.nil
  /\ fb.nil => (fb.buf = <<>> /\ ~file.valid /\ ~file.open)

\* Open has failed
C6_Witness ==
  /\ ret.op = "Open"
  /\ info.status # 0
  /\ ret.err = "InitErr"
  /\ Len(dev) > 0

C9_SetIsWritePixel ==
  ~fb.nil =>
    \A p \in Coords, c \in Colors :
      Set(fb, p[1], p[2], c) = WritePixel(fb, p[1], p[2], c.R, c.G, c.B)

\* Set has stored a colour whose channels are neither 0 nor 255
C9_Witness ==
  /\ ret.op = "Set"
  /\ ~ret.panic
  /\ ret.c.R \notin {0, 255}
  /\ fb.buf[Off(ret.x, ret.y) + 3] = ret.c.R

\* C10: for every open surface and every (x, y) inside Bounds, off + 3 is less
\* than the buffer length, and no At, Set or WritePixel on such (x, y) panics.
C10_IndexSafe ==
  /\ ~fb.nil => \A p \in Coords : Off(p[1], p[2]) + 3 < Len(fb.buf)
  /\ ret.op \in (PixelWrite \cup {"At"}) => ~ret.panic

====
